---- MODULE Spec2Model ----
(***************************************************************************)
(* Model of scripts/process_voice_prompt.py: one run of main(), from the   *)
(* parsed command line to the process exit code.                           *)
(*                                                                         *)
(* Text is modelled as a sequence of tokens.  A token is a piece of text   *)
(* that holds none of the separators the program or pathlib looks at       *)
(* ("," ":" "/" "."), so the empty string is <<>> and str.join, f-string   *)
(* interpolation, str.rfind and str.split work on tokens as they do on     *)
(* characters.                                                             *)
(***************************************************************************)
EXTENDS Integers, Sequences, FiniteSets, TLC

\* ------------------------------------------------------------------ bounds
\* Longest input path (in tokens) of the path specification.
MaxPathLen == 4
\* Longest equalizer list of the filter-chain specification.
MaxEq == 2
\* Largest file size (bytes) on the modelled filesystem.
MaxSize == 2

\* ------------------------------------------------------------ text helpers
Range(s) == {s[i] : i \in 1..Len(s)}

RECURSIVE Join(_, _)
\* sep.join(strs)
Join(sep, strs) ==
    IF strs = <<>> THEN <<>>
    ELSE IF Len(strs) = 1 THEN strs[1]
    ELSE strs[1] \o sep \o Join(sep, Tail(strs))

\* Index of the first / last occurrence of token c in s, 0 when absent
\* (str.find / str.rfind return -1 there; only the position is used here).
Find(s, c) ==
    IF c \in Range(s) THEN CHOOSE i \in 1..Len(s) : s[i] = c /\ \A j \in 1..(i-1) : s[j] # c
    ELSE 0

RFind(s, c) ==
    IF c \in Range(s) THEN CHOOSE i \in 1..Len(s) : s[i] = c /\ \A j \in (i+1)..Len(s) : s[j] # c
    ELSE 0

RECURSIVE Split(_, _)
\* s.split(c): the pieces of s between the occurrences of token c.
Split(s, c) ==
    IF Find(s, c) = 0 THEN <<s>>
    ELSE <<SubSeq(s, 1, Find(s, c) - 1)>> \o Split(SubSeq(s, Find(s, c) + 1, Len(s)), c)

\* All texts of at most n tokens over the alphabet A.
Texts(A, n) == UNION {[1..k -> A] : k \in 0..n}

\* ------------------------------------------------- pathlib.PurePosixPath
PathChars == {"a", ".", "/"}

RECURSIVE LeadingSlashes(_)
LeadingSlashes(s) ==
    IF s # <<>> /\ Head(s) = "/" THEN 1 + LeadingSlashes(Tail(s)) ELSE 0

\* posixpath.splitroot: exactly two leading slashes are kept, any other
\* number collapses to one.
PathRoot(s) ==
    IF LeadingSlashes(s) = 0 THEN <<>>
    ELSE IF LeadingSlashes(s) = 2 THEN <<"/", "/">>
    ELSE <<"/">>

IsRealPart(c) == c # <<>> /\ c # <<".">>

\* Path(s): root and components; empty and "." components are dropped.
ParsePath(s) == [root |-> PathRoot(s), parts |-> SelectSeq(Split(s, "/"), IsRealPart)]

\* p.name
PathName(p) == IF p.parts = <<>> THEN <<>> ELSE p.parts[Len(p.parts)]

\* p.suffix (Python <= 3.13): name[i:] with i = name.rfind('.'), when
\* 0 < i < len(name) - 1 (0-based), '' otherwise.
PathSuffix(p) ==
    LET name == PathName(p)
        i == RFind(name, ".")
    IN IF 1 < i /\ i < Len(name) THEN SubSeq(name, i, Len(name)) ELSE <<>>

\* p.stem
PathStem(p) ==
    LET name == PathName(p)
        i == RFind(name, ".")
    IN IF 1 < i /\ i < Len(name) THEN SubSeq(name, 1, i - 1) ELSE name

\* p.parent: the path without its last component; a path with no component
\* is its own parent.
PathParent(p) ==
    IF p.parts = <<>> THEN p
    ELSE [root |-> p.root, parts |-> SubSeq(p.parts, 1, Len(p.parts) - 1)]

\* p / seg for a relative segment seg
PathJoin(p, seg) ==
    [root |-> p.root, parts |-> p.parts \o SelectSeq(Split(seg, "/"), IsRealPart)]

\* str(p)
PathStr(p) ==
    IF p.root = <<>> /\ p.parts = <<>> THEN <<".">>
    ELSE p.root \o Join(<<"/">>, p.parts)

\* main, line 261-262: str(input_path.parent / f"{stem}_processed{suffix}")
DefaultOutput(input) ==
    LET input_path == ParsePath(input)
    IN PathStr(PathJoin(PathParent(input_path),
                        PathStem(input_path) \o <<"_processed">> \o PathSuffix(input_path)))

\* ------------------------------------------------ VoicePromptProcessor
\* VoicePromptProcessor.__init__: the built-in parameters.
VoicePromptProcessor ==
    [ silence_threshold    |-> <<"-40dB">>,
      silence_duration     |-> <<"0.5">>,
      max_silence_duration |-> <<"0.5">>,
      target_loudness      |-> <<"-16">>,
      eq_filters           |-> << <<"highpass=", "f=100">>,
                                  <<"lowpass=", "f=10000">>,
                                  <<"equalizer=", "f=150", ":", "t=q", ":", "w=1", ":", "g=-3">>,
                                  <<"equalizer=", "f=200", ":", "t=q", ":", "w=1", ":", "g=-2">>,
                                  <<"equalizer=", "f=3000", ":", "t=q", ":", "w=2", ":", "g=3">> >>,
      noise_reduction      |-> <<"afftdn=", "nf=-25">>,
      compressor           |-> <<"acompressor=", "threshold=-20dB", ":", "ratio=4", ":",
                                 "attack=5", ":", "release=50">> ]

\* build_filter_chain, lines 94-103: the silenceremove stage
silence_filter(self) ==
    <<"silenceremove=", "start_periods=1", ":", "start_silence=">> \o self.silence_duration
    \o <<":", "start_threshold=">> \o self.silence_threshold
    \o <<":", "stop_periods=-1", ":", "stop_silence=">> \o self.silence_duration
    \o <<":", "stop_threshold=">> \o self.silence_threshold
    \o <<":", "detection=peak">>

\* build_filter_chain, line 114: the loudnorm stage
loudnorm_filter(self) ==
    <<"loudnorm=", "I=">> \o self.target_loudness \o <<":", "TP=-1.5", ":", "LRA=11">>

\* A plausible slip: the compressor appended before the equalizer list.
build_filter_chain_compressor_first(self) ==
    Join(<<",">>, <<self.noise_reduction>> \o <<silence_filter(self)>>
                  \o <<self.compressor>> \o self.eq_filters \o <<loudnorm_filter(self)>>)

\* build_filter_chain: the five steps appended to `filters`, then ",".join
build_filter_chain(self) ==
    Join(<<",">>, <<self.noise_reduction>> \o <<silence_filter(self)>>
                  \o self.eq_filters \o <<self.compressor>> \o <<loudnorm_filter(self)>>)

\* ------------------------------------------------------------ command lines
\* check_ffmpeg: ["ffmpeg", "-version"]
ProbeCmd ==
    [ prog |-> "ffmpeg", version |-> TRUE, loglevel |-> <<>>, input |-> <<>>,
      af |-> <<>>, fmt |-> "none", output |-> <<>> ]

\* A plausible slip: the analysis pass encoding to the default output path.
AnalyzeCmdWritingOutput(self, input_file) ==
    [ prog |-> "ffmpeg", version |-> FALSE, loglevel |-> <<>>, input |-> input_file,
      af |-> <<"silencedetect=", "noise=">> \o self.silence_threshold
             \o <<":", "d=">> \o self.silence_duration,
      fmt |-> "libmp3lame", output |-> DefaultOutput(input_file) ]

\* analyze_silence, lines 168-174: ffmpeg -i input -af silencedetect=... -f null -
AnalyzeCmd(self, input_file) ==
    [ prog |-> "ffmpeg", version |-> FALSE, loglevel |-> <<>>, input |-> input_file,
      af |-> <<"silencedetect=", "noise=">> \o self.silence_threshold
             \o <<":", "d=">> \o self.silence_duration,
      fmt |-> "null", output |-> <<"-">> ]

\* process_audio, lines 126-145: ffmpeg [-loglevel error] -i input -af chain
\* -ar 44100 -ac 1 -c:a libmp3lame -b:a 96k -y output
ProcessCmd(input_file, out, chain, verbose) ==
    [ prog |-> "ffmpeg", version |-> FALSE,
      loglevel |-> IF verbose THEN <<>> ELSE <<"error">>,
      input |-> input_file, af |-> chain, fmt |-> "libmp3lame", output |-> out ]

\* ------------------------------------------------------------- filesystem
NoFile == [exists |-> FALSE, size |-> 0]
File(n) == [exists |-> TRUE, size |-> n]
FileStates == {NoFile} \cup {File(n) : n \in 0..MaxSize}

\* The file a path text names: the kernel ignores repeated slashes and "."
\* components, as pathlib's normal form does.
FileKey(path) == PathStr(ParsePath(path))

\* os.path.exists(path): the empty path names nothing.
Exists(f, path) == path # <<>> /\ f[FileKey(path)].exists

\* os.path.getsize(path), defined when the path exists
GetSize(f, path) == f[FileKey(path)].size

\* ------------------------------------------------------- the engine (ffmpeg)
\* What the child's stderr carries: the cause of a failure, and on success
\* its log unless -loglevel error silences it.  An analysis pass logs the
\* silencedetect events.
EngineStderr(cmd, rc) ==
    IF rc # 0 THEN << <<"engine_diag">> >>
    ELSE IF cmd.loglevel = <<"error">> THEN <<>>
    ELSE IF cmd.fmt = "null"
         THEN << <<"engine_log">>,
                 <<"silencedetect", "silence_start">>,
                 <<"silencedetect", "silence_end", "silence_duration">> >>
    ELSE << <<"engine_log">> >>

\* The filesystems a child may leave: it writes no file under -f null, and
\* otherwise may or may not have written its output path (-y overwrites).
EngineWrites(cmd, f) ==
    IF cmd.fmt = "null" THEN {f}
    ELSE {f} \cup {[f EXCEPT ![FileKey(cmd.output)] = File(n)] : n \in 0..MaxSize}

\* The outcomes of one blocking subprocess.run of an ffmpeg command on
\* filesystem f: exit status, filesystem afterwards, stderr text.  A missing
\* input makes the engine fail before it opens any output.
EngineResults(cmd, f) ==
    IF ~Exists(f, cmd.input)
    THEN {[rc |-> 1, fs |-> f, stderr |-> EngineStderr(cmd, 1)]}
    ELSE {[rc |-> rc, fs |-> g, stderr |-> EngineStderr(cmd, rc)] :
            rc \in {0, 1}, g \in EngineWrites(cmd, f)}

\* str(CalledProcessError): "Command '...' returned non-zero exit status N."
\* The captured stderr is a field of the exception, not part of its text.
StrCalledProcessError(cmd, rc) ==
    <<"Command", cmd.prog, "returned non-zero exit status", IF rc = 1 THEN "1" ELSE "0">>

\* ------------------------------------------------------------------ state
VARIABLES
    args,          \* the parsed command line (argparse Namespace)
    processor,     \* the VoicePromptProcessor instance
    pc,            \* where the run is
    fs,            \* the filesystem: file key -> file state
    fs0,           \* the filesystem at the start of the run (history)
    running,       \* the child processes alive now
    invocations,   \* the subprocess.run calls made so far, in order (history)
    rcs,           \* the outcome of each finished subprocess.run call (history)
    ffmpeg_ok,     \* the result of check_ffmpeg: "unknown", "yes", "no"
    exists_checked,\* os.path.exists(input) has been evaluated (history)
    output_file,   \* main's output_file: [set, path]
    filter_chain,  \* process_audio's filter_chain, <<>> before it is built
    terminal,      \* the lines the user has seen, in order
    success,       \* the value process_audio returned: "unset", "true", "false"
    exit_code      \* the process exit status, -1 while the run lasts

vars == <<args, processor, pc, fs, fs0, running, invocations, rcs, ffmpeg_ok,
          exists_checked, output_file, filter_chain, terminal, success, exit_code>>

\* ----------------------------------------------------------------- inputs
\* The optional positional `output`: absent, the empty string, or a path.
Outputs ==
    { [given |-> FALSE, path |-> <<>>],
      [given |-> TRUE,  path |-> <<>>],
      [given |-> TRUE,  path |-> <<"a">>],
      [given |-> TRUE,  path |-> <<"d", "/", "o", ".", "m">>] }

\* Values of --silence-threshold / --silence-duration / --target-loudness.
\* An omitted option arrives as its argparse default (lines 221, 226, 231).
ThresholdValues == {<<>>, <<"-35dB">>, <<"-50dB">>}
DurationValues  == {<<>>, <<"0.4">>}
LoudnessValues  == {<<>>, <<"-16">>, <<"-23">>}

\* Input paths of the run specification.
RunInputs == {<<>>, <<"a">>, <<"d", "/", "a", ".", "m">>}

RunArgs ==
    [ input : RunInputs, output : Outputs, verbose : BOOLEAN, analyze : BOOLEAN,
      silence_threshold : ThresholdValues, silence_duration : DurationValues,
      target_loudness : LoudnessValues ]

\* Python truthiness of an optional string: None and "" are false.
Truthy(opt) == opt.given /\ opt.path # <<>>

\* The file keys a run with arguments a can touch.
FsPaths(a) ==
    {FileKey(a.input), FileKey(DefaultOutput(a.input))}
    \cup (IF a.output.given THEN {FileKey(a.output.path)} ELSE {})

\* The filesystems a run can start on: the input is missing or has any size,
\* every other path is missing or holds an earlier file.
StartFs(a) ==
    { f \in [FsPaths(a) -> FileStates] :
        \A k \in FsPaths(a) : k # FileKey(a.input) => f[k] \in {NoFile, File(MaxSize)} }

\* The state after parse_args() and VoicePromptProcessor() (lines 235-238).
InitWith(a, f) ==
    /\ args = a
    /\ processor = VoicePromptProcessor
    /\ pc = "override"
    /\ fs = f
    /\ fs0 = f
    /\ running = {}
    /\ invocations = <<>>
    /\ rcs = <<>>
    /\ ffmpeg_ok = "unknown"
    /\ exists_checked = FALSE
    /\ output_file = [set |-> FALSE, path |-> <<>>]
    /\ filter_chain = <<>>
    /\ terminal = <<>>
    /\ success = "unset"
    /\ exit_code = -1

Init == \E a \in RunArgs : \E f \in StartFs(a) : InitWith(a, f)

\* ---------------------------------------------------------------- actions
\* main, lines 240-246: "Override defaults if specified"
Override ==
    /\ pc = "override"
    /\ processor' =
         [processor EXCEPT
            !.silence_threshold = IF args.silence_threshold # <<>>
                                  THEN args.silence_threshold ELSE @,
            !.silence_duration  = IF args.silence_duration # <<>>
                                  THEN args.silence_duration ELSE @,
            !.target_loudness   = IF args.target_loudness # <<>>
                                  THEN args.target_loudness ELSE @]
    /\ pc' = "check_ffmpeg"
    /\ UNCHANGED <<args, fs, fs0, running, invocations, rcs, ffmpeg_ok, exists_checked,
                   output_file, filter_chain, terminal, success, exit_code>>

\* check_ffmpeg, lines 55-65: subprocess.run(["ffmpeg", "-version"]).  With
\* no ffmpeg on PATH the call raises FileNotFoundError and no child starts.
CheckFfmpegCall ==
    /\ pc = "check_ffmpeg"
    /\ invocations' = Append(invocations, [kind |-> "probe", cmd |-> ProbeCmd])
    /\ \E installed \in BOOLEAN :
         IF installed
         THEN /\ running' = running \cup {[kind |-> "probe", cmd |-> ProbeCmd]}
              /\ pc' = "check_ffmpeg_wait"
              /\ UNCHANGED <<rcs, ffmpeg_ok, terminal>>
         ELSE /\ rcs' = Append(rcs, "FileNotFoundError")
              /\ terminal' = Append(terminal, <<"Error: ffmpeg not found.">>)
              /\ ffmpeg_ok' = "no"
              /\ pc' = "main_probe_result"
              /\ UNCHANGED running
    /\ UNCHANGED <<args, processor, fs, fs0, exists_checked, output_file, filter_chain,
                   success, exit_code>>

\* check_ffmpeg, lines 56-65: the probe child exits; its output is piped and
\* dropped; check=True turns a non-zero status into CalledProcessError.
CheckFfmpegReturn ==
    /\ pc = "check_ffmpeg_wait"
    /\ running' = {}
    /\ \E rc \in {0, 1} :
         /\ rcs' = Append(rcs, IF rc = 0 THEN "0" ELSE "1")
         /\ IF rc = 0
            THEN ffmpeg_ok' = "yes" /\ UNCHANGED terminal
            ELSE /\ ffmpeg_ok' = "no"
                 /\ terminal' = Append(terminal, <<"Error: ffmpeg not found.">>)
    /\ pc' = "main_probe_result"
    /\ UNCHANGED <<args, processor, fs, fs0, invocations, exists_checked, output_file,
                   filter_chain, success, exit_code>>

\* A plausible slip: the probe's result ignored, the run going on.
MainProbeResultIgnored ==
    /\ pc = "main_probe_result"
    /\ pc' = IF args.analyze THEN "analyze_silence" ELSE "determine_output"
    /\ UNCHANGED <<args, processor, fs, fs0, running, invocations, rcs, ffmpeg_ok,
                   exists_checked, output_file, filter_chain, terminal, success, exit_code>>

\* main, lines 249-253: return 1 without the engine, else pick the mode.
MainProbeResult ==
    /\ pc = "main_probe_result"
    /\ IF ffmpeg_ok = "no"
       THEN pc' = "done" /\ exit_code' = 1
       ELSE /\ pc' = IF args.analyze THEN "analyze_silence" ELSE "determine_output"
            /\ UNCHANGED exit_code
    /\ UNCHANGED <<args, processor, fs, fs0, running, invocations, rcs, ffmpeg_ok,
                   exists_checked, output_file, filter_chain, terminal, success>>

\* analyze_silence, lines 184-190: the silencedetect lines of the captured
\* stderr are echoed, those with silence_duration counted.
IsSilenceLine(line) ==
    /\ "silencedetect" \in Range(line)
    /\ Range(line) \cap {"silence_start", "silence_end", "silence_duration"} # {}

SilenceReport(stderr) ==
    LET shown == SelectSeq(stderr, IsSilenceLine)
        n == Cardinality({i \in 1..Len(shown) : "silence_duration" \in Range(shown[i])})
    IN shown \o << <<"Total silence periods detected:", IF n = 0 THEN "0" ELSE "n">> >>

\* analyze_silence, lines 168-180: build the command, announce, start the
\* child.  The input path goes to the engine as it is.
AnalyzeSilenceCall ==
    /\ pc = "analyze_silence"
    /\ LET call == [kind |-> "analysis", cmd |-> AnalyzeCmd(processor, args.input)]
       IN /\ invocations' = Append(invocations, call)
          /\ running' = running \cup {call}
    /\ terminal' = terminal \o << <<"Analyzing silence patterns in:">> \o args.input,
                                  <<"Threshold:">> \o processor.silence_threshold
                                  \o <<"Min duration:">> \o processor.silence_duration >>
    /\ pc' = "analyze_wait"
    /\ UNCHANGED <<args, processor, fs, fs0, rcs, ffmpeg_ok, exists_checked, output_file,
                   filter_chain, success, exit_code>>

\* analyze_silence, lines 180-193: the child exits; stdout and stderr were
\* captured.  Success prints the report, CalledProcessError prints str(e);
\* either way the method returns None.
AnalyzeSilenceReturn ==
    /\ pc = "analyze_wait"
    /\ \E call \in running : \E r \in EngineResults(call.cmd, fs) :
         /\ fs' = r.fs
         /\ rcs' = Append(rcs, IF r.rc = 0 THEN "0" ELSE "1")
         /\ terminal' =
              IF r.rc = 0
              THEN terminal \o SilenceReport(r.stderr)
              ELSE Append(terminal, <<"Error analyzing silence:">>
                                    \o StrCalledProcessError(call.cmd, r.rc))
    /\ running' = {}
    /\ pc' = "main_analyze_result"
    /\ UNCHANGED <<args, processor, fs0, invocations, ffmpeg_ok, exists_checked,
                   output_file, filter_chain, success, exit_code>>

\* A plausible slip: the analysis branch missing its return, the run going
\* on to process the file.
MainAnalyzeResultFallThrough ==
    /\ pc = "main_analyze_result"
    /\ pc' = "determine_output"
    /\ UNCHANGED <<args, processor, fs, fs0, running, invocations, rcs, ffmpeg_ok,
                   exists_checked, output_file, filter_chain, terminal, success, exit_code>>

\* main, line 255: return 0 after analyze_silence, whatever it did.
MainAnalyzeResult ==
    /\ pc = "main_analyze_result"
    /\ exit_code' = 0
    /\ pc' = "done"
    /\ UNCHANGED <<args, processor, fs, fs0, running, invocations, rcs, ffmpeg_ok,
                   exists_checked, output_file, filter_chain, terminal, success>>

\* A plausible slip: the default name built from the whole file name.
DetermineOutputPathAppend(a) ==
    IF Truthy(a.output) THEN a.output.path
    ELSE LET input_path == ParsePath(a.input)
         IN PathStr(PathJoin(PathParent(input_path),
                             PathName(input_path) \o <<"_processed">>))

\* main, lines 258-262: the output path of a processing run
DetermineOutputPath(a) ==
    IF Truthy(a.output) THEN a.output.path ELSE DefaultOutput(a.input)

\* main, lines 257-262
DetermineOutput ==
    /\ pc = "determine_output"
    /\ output_file' = [set |-> TRUE, path |-> DetermineOutputPath(args)]
    /\ pc' = "process_audio"
    /\ UNCHANGED <<args, processor, fs, fs0, running, invocations, rcs, ffmpeg_ok,
                   exists_checked, filter_chain, terminal, success, exit_code>>

\* process_audio, lines 120-122: the input must exist
ProcessAudioCheckInput ==
    /\ pc = "process_audio"
    /\ exists_checked' = TRUE
    /\ IF Exists(fs, args.input)
       THEN pc' = "build_filter_chain" /\ UNCHANGED <<terminal, success>>
       ELSE /\ terminal' = Append(terminal, <<"Error: Input file not found:">> \o args.input)
            /\ success' = "false"
            /\ pc' = "main_process_result"
    /\ UNCHANGED <<args, processor, fs, fs0, running, invocations, rcs, ffmpeg_ok,
                   output_file, filter_chain, exit_code>>

\* process_audio, line 124
BuildFilterChain ==
    /\ pc = "build_filter_chain"
    /\ filter_chain' = build_filter_chain(processor)
    /\ pc' = "process_call"
    /\ UNCHANGED <<args, processor, fs, fs0, running, invocations, rcs, ffmpeg_ok,
                   exists_checked, output_file, terminal, success, exit_code>>

\* process_audio, lines 126-148: build the command, echo it in verbose mode,
\* start the child.
ProcessAudioCall ==
    /\ pc = "process_call"
    /\ LET call == [kind |-> "processing",
                    cmd |-> ProcessCmd(args.input, output_file.path, filter_chain,
                                       args.verbose)]
       IN /\ invocations' = Append(invocations, call)
          /\ running' = running \cup {call}
    /\ terminal' = IF args.verbose
                   THEN terminal \o << <<"Processing:">> \o args.input,
                                       <<"Output:">> \o output_file.path,
                                       <<"Filter chain:">> \o filter_chain >>
                   ELSE terminal
    /\ pc' = "process_wait"
    /\ UNCHANGED <<args, processor, fs, fs0, rcs, ffmpeg_ok, exists_checked, output_file,
                   filter_chain, success, exit_code>>

\* process_audio, lines 154-158: the size line, or the exception the three
\* statements raise (getsize of a missing file, division by a zero size).
SizeReportRaises(f, input_file, out) ==
    \/ ~Exists(f, input_file)
    \/ ~Exists(f, out)
    \/ GetSize(f, input_file) = 0

\* process_audio, lines 148-164: the child exits.  In verbose mode its
\* stderr went to the terminal; otherwise it was captured into the result or
\* the exception.  Only CalledProcessError is caught.
ProcessAudioReturn ==
    /\ pc = "process_wait"
    /\ \E call \in running : \E r \in EngineResults(call.cmd, fs) :
         LET seen == IF args.verbose THEN terminal \o r.stderr ELSE terminal
             done == IF args.verbose THEN Append(seen, <<"Processing complete!">>) ELSE seen
         IN /\ fs' = r.fs
            /\ rcs' = Append(rcs, IF r.rc = 0 THEN "0" ELSE "1")
            /\ IF r.rc # 0
               THEN /\ terminal' = Append(seen, <<"Error processing audio:">>
                                                \o StrCalledProcessError(call.cmd, r.rc))
                    /\ success' = "false"
                    /\ pc' = "main_process_result"
               ELSE IF SizeReportRaises(r.fs, args.input, output_file.path)
               THEN /\ terminal' = done
                    /\ pc' = "uncaught_exception"
                    /\ UNCHANGED success
               ELSE /\ terminal' = Append(done, <<"File size:", "reduction">>)
                    /\ success' = "true"
                    /\ pc' = "main_process_result"
    /\ running' = {}
    /\ UNCHANGED <<args, processor, fs0, invocations, ffmpeg_ok, exists_checked,
                   output_file, filter_chain, exit_code>>

\* main, line 267: return 0 if success else 1
MainProcessResult ==
    /\ pc = "main_process_result"
    /\ exit_code' = IF success = "true" THEN 0 ELSE 1
    /\ pc' = "done"
    /\ UNCHANGED <<args, processor, fs, fs0, running, invocations, rcs, ffmpeg_ok,
                   exists_checked, output_file, filter_chain, terminal, success>>

\* line 271, sys.exit(main()): an exception main does not catch ends the
\* interpreter with a traceback and exit status 1.
UncaughtException ==
    /\ pc = "uncaught_exception"
    /\ terminal' = Append(terminal, <<"Traceback">>)
    /\ exit_code' = 1
    /\ pc' = "done"
    /\ UNCHANGED <<args, processor, fs, fs0, running, invocations, rcs, ffmpeg_ok,
                   exists_checked, output_file, filter_chain, success>>

Next ==
    \/ Override
    \/ CheckFfmpegCall
    \/ CheckFfmpegReturn
    \/ MainProbeResult
    \/ AnalyzeSilenceCall
    \/ AnalyzeSilenceReturn
    \/ MainAnalyzeResult
    \/ DetermineOutput
    \/ ProcessAudioCheckInput
    \/ BuildFilterChain
    \/ ProcessAudioCall
    \/ ProcessAudioReturn
    \/ MainProcessResult
    \/ UncaughtException

Spec == Init /\ [][Next]_vars

\* ------------------------------------------- the output-path specification
\* Runs over every input path text of at most MaxPathLen tokens, on a
\* filesystem that holds the input (when its path can name a file) and
\* nothing else, with the options left at their argparse defaults.
PathArgs ==
    [ input : Texts(PathChars, MaxPathLen), output : Outputs, verbose : {FALSE},
      analyze : BOOLEAN, silence_threshold : {<<"-35dB">>},
      silence_duration : {<<"0.4">>}, target_loudness : {<<"-16">>} ]

PathFs(a) ==
    [k \in FsPaths(a) |-> IF k = FileKey(a.input) THEN File(MaxSize) ELSE NoFile]

InitPath == \E a \in PathArgs : InitWith(a, PathFs(a))

SpecPath == InitPath /\ [][Next]_vars

\* ------------------------------------------ the filter-chain specification
\* build_filter_chain applied to every ProcessingConfiguration whose
\* equalizer list has at most MaxEq stages, at the point of process_audio
\* that calls it.
EqPool == {VoicePromptProcessor.eq_filters[1], VoicePromptProcessor.eq_filters[3]}

ChainConfigs ==
    [ silence_threshold : ThresholdValues, silence_duration : DurationValues,
      max_silence_duration : {VoicePromptProcessor.max_silence_duration},
      target_loudness : LoudnessValues, eq_filters : Texts(EqPool, MaxEq),
      noise_reduction : {VoicePromptProcessor.noise_reduction},
      compressor : {VoicePromptProcessor.compressor} ]

ChainArgs ==
    [ input |-> <<"a">>, output |-> [given |-> FALSE, path |-> <<>>], verbose |-> FALSE,
      analyze |-> FALSE, silence_threshold |-> <<"-35dB">>,
      silence_duration |-> <<"0.4">>, target_loudness |-> <<"-16">> ]

InitChain ==
    /\ args = ChainArgs
    /\ processor \in ChainConfigs
    /\ pc = "build_filter_chain"
    /\ fs = PathFs(ChainArgs)
    /\ fs0 = PathFs(ChainArgs)
    /\ running = {}
    /\ invocations = << [kind |-> "probe", cmd |-> ProbeCmd] >>
    /\ rcs = <<"0">>
    /\ ffmpeg_ok = "yes"
    /\ exists_checked = TRUE
    /\ output_file = [set |-> TRUE, path |-> DetermineOutputPath(ChainArgs)]
    /\ filter_chain = <<>>
    /\ terminal = <<>>
    /\ success = "unset"
    /\ exit_code = -1

NextChain == BuildFilterChain

SpecChain == InitChain /\ [][NextChain]_vars

\* ------------------------------------------------------- reading the state
\* The stages of a chain string, as the engine splits it.
Stages(chain) == Split(chain, ",")

\* The text between `key` and the next ":" of a stage.
ParamValue(stage, key) ==
    LET rest == SubSeq(stage, Find(stage, key) + 1, Len(stage))
    IN IF Find(rest, ":") = 0 THEN rest ELSE SubSeq(rest, 1, Find(rest, ":") - 1)

Last(s) == s[Len(s)]

\* The engine call of this run (analysis or processing) has returned rc.
EngineReturned(kind, rc) ==
    /\ Len(invocations) >= 2 /\ invocations[2].kind = kind
    /\ Len(rcs) >= 2 /\ rcs[2] = rc

Printed(tag) == \E i \in 1..Len(terminal) : tag \in Range(terminal[i])

\* ------------------------------------------------------------------ claims
\* C1: every finished run exits 0 when it succeeded and 1 on any failure
\* (engine missing, input not found, engine invocation returning non-zero).
C1_ExitCodeReflectsOutcome ==
    pc = "done" =>
        LET failed == \/ ffmpeg_ok = "no"
                      \/ ~Exists(fs0, args.input)
                      \/ \E i \in 1..Len(rcs) : rcs[i] # "0"
        IN exit_code = IF failed THEN 1 ELSE 0

\* C2: once the probe has failed, the run only ends with exit code 1: no
\* input-existence check, no chain build, no analysis or processing call.
C2_ProbeFailureStopsRun ==
    ffmpeg_ok = "no" =>
        /\ pc \in {"main_probe_result", "done"}
        /\ ~exists_checked
        /\ filter_chain = <<>>
        /\ \A i \in 1..Len(invocations) : invocations[i].kind = "probe"
        /\ running = {}
        /\ pc = "done" => exit_code = 1

C2_Witness == ffmpeg_ok = "no" /\ pc = "done" /\ exit_code = 1 /\ Len(invocations) = 1

\* C3: when the input path does not exist, no analysis or processing child is
\* ever started, and a run that found the engine ends with the input-not-found
\* message and exit code 1, in either mode.
C3_MissingInputNeverReachesEngine ==
    ~Exists(fs0, args.input) =>
        /\ \A i \in 1..Len(invocations) : invocations[i].kind = "probe"
        /\ (pc = "done" /\ ffmpeg_ok = "yes") =>
               (exit_code = 1 /\ Printed("Error: Input file not found:"))

\* C4: the built chain lists noise reduction, silence removal, every
\* equalizer stage in its listed order, the compressor, and loudness
\* normalization last.
C4_StageOrder ==
    filter_chain # <<>> =>
        LET st == Stages(filter_chain)
            n  == Len(processor.eq_filters)
        IN /\ Len(st) = n + 4
           /\ st[1] = processor.noise_reduction
           /\ Head(st[2]) = "silenceremove="
           /\ \A i \in 1..n : st[2 + i] = processor.eq_filters[i]
           /\ st[n + 3] = processor.compressor
           /\ Head(st[n + 4]) = "loudnorm="

C4_Witness ==
    /\ pc = "process_call"
    /\ Len(processor.eq_filters) >= 2
    /\ processor.eq_filters[1] # processor.eq_filters[2]
    /\ Len(Stages(filter_chain)) = Len(processor.eq_filters) + 4

\* C5: the built chain carries every value given to --silence-threshold,
\* --silence-duration and --target-loudness in the matching stage parameters.
C5_ChainCarriesCliValues ==
    filter_chain # <<>> =>
        LET st == Stages(filter_chain)
        IN /\ ParamValue(st[2], "start_threshold=") = args.silence_threshold
           /\ ParamValue(st[2], "stop_threshold=") = args.silence_threshold
           /\ ParamValue(st[2], "start_silence=") = args.silence_duration
           /\ ParamValue(st[2], "stop_silence=") = args.silence_duration
           /\ ParamValue(Last(st), "I=") = args.target_loudness

\* C6: in quiet mode, when the processing child has exited non-zero, its
\* diagnostic output has reached the user.
C6_QuietFailureSurfacesDiagnostics ==
    (~args.verbose /\ EngineReturned("processing", "1")) => Printed("engine_diag")

\* C7: a run calls the probe first and then at most one of analysis or
\* processing, never both, never one twice, never two children at once.
C7_AtMostProbeThenOneEngineCall ==
    /\ Len(invocations) <= 2
    /\ Len(invocations) >= 1 => invocations[1].kind = "probe"
    /\ Len(invocations) = 2 => invocations[2].kind \in {"analysis", "processing"}
    /\ Cardinality(running) <= 1

C7_Witness ==
    /\ pc = "done"
    /\ EngineReturned("processing", "1")
    /\ Len(invocations) = 2

\* C8: in a run with the analyze flag, the output path (explicit or default)
\* holds at every moment what it held at the start.
C8_AnalysisLeavesOutputAlone ==
    args.analyze =>
        fs[FileKey(DetermineOutputPath(args))] = fs0[FileKey(DetermineOutputPath(args))]

C8_Witness ==
    /\ args.analyze
    /\ pc = "done"
    /\ EngineReturned("analysis", "0")
    /\ ~Truthy(args.output)
    /\ fs0[FileKey(DetermineOutputPath(args))].exists

\* C9 as stated: with no output argument, the computed path has the input's
\* parent directory, the input's stem followed by _processed as its stem, and
\* the input's extension; an explicit output path is used unchanged.
C9_DefaultOutputKeepsDirStemSuffix ==
    output_file.set =>
        /\ Truthy(args.output) => output_file.path = args.output.path
        /\ ~args.output.given =>
              LET inp == ParsePath(args.input)
                  out == ParsePath(output_file.path)
              IN /\ PathParent(out) = PathParent(inp)
                 /\ PathStem(out) = PathStem(inp) \o <<"_processed">>
                 /\ PathSuffix(out) = PathSuffix(inp)

EndsWithDot(name) == name # <<>> /\ Last(name) = "."

\* C9 as amended: the same, for every input whose file name does not end in
\* "."; an empty output argument counts as none.
C9_DefaultOutputAmended ==
    output_file.set =>
        /\ Truthy(args.output) => output_file.path = args.output.path
        /\ (~Truthy(args.output) /\ ~EndsWithDot(PathName(ParsePath(args.input)))) =>
              LET inp == ParsePath(args.input)
                  out == ParsePath(output_file.path)
              IN /\ PathParent(out) = PathParent(inp)
                 /\ PathStem(out) = PathStem(inp) \o <<"_processed">>
                 /\ PathSuffix(out) = PathSuffix(inp)

C9_Witness ==
    /\ output_file.set
    /\ ~args.output.given
    /\ PathSuffix(ParsePath(args.input)) # <<>>
    /\ output_file.path = DefaultOutput(args.input)

\* C10: in processing mode, once the engine child has exited with status
\* zero the run succeeds: the size line is printed, process_audio returns
\* True and the exit code is 0, whatever the file sizes and whether or not an
\* output file exists.
C10_EngineSuccessMeansRunSuccess ==
    EngineReturned("processing", "0") =>
        /\ pc # "uncaught_exception"
        /\ Printed("File size:")
        /\ success = "true"
        /\ pc = "done" => exit_code = 0

====
